---- MODULE Spec2Model ----
(***************************************************************************)
(* A model of the datatypes library: the cyclically indexable list         *)
(* (datatypes/collections/cyclic_list.py) and the segment intersection of  *)
(* the planar geometry kit (datatypes/geometry/segment.py).                *)
(*                                                                         *)
(* Python sequences are 0-indexed; TLA+ sequences are 1-indexed.  Every    *)
(* position below is a Python position and At() does the shift.            *)
(* An optional slice bound is <<>> (Python's None) or <<v>>.               *)
(***************************************************************************)
EXTENDS Integers, Sequences, FiniteSets, TLC

VARIABLES data, last, prevLen, seg, vec, live

vars == <<data, last, prevLen, seg, vec, live>>

(***************************************************************************)
(* Bounds                                                                  *)
(***************************************************************************)
MaxLen == 2
MaxVal == 1
MaxIdx == 4
MaxStep == 2
MaxRhs == 1

Values == 0..MaxVal
Indices == (0 - MaxIdx)..MaxIdx
None == <<>>
Some(v) == <<v>>
OptIndices == {None} \cup {Some(i) : i \in Indices}
Steps == {None} \cup {Some(k) : k \in (0 - MaxStep)..MaxStep}

RECURSIVE SeqsUpTo(_, _)
SeqsUpTo(S, k) ==
  IF k = 0 THEN {<<>>}
  ELSE LET shorter == SeqsUpTo(S, k - 1)
       IN shorter \cup {Append(s, v) : s \in {t \in shorter : Len(t) = k - 1}, v \in S}

Lists == SeqsUpTo(Values, MaxLen)
Rhs == SeqsUpTo(Values, MaxRhs)
ShortRhs == SeqsUpTo(Values, 1)

(***************************************************************************)
(* The built-in list that CyclicList.data is                               *)
(***************************************************************************)
At(s, p) == s[p + 1]

Default(o, d) == IF o = None THEN d ELSE o[1]

Max(a, b) == IF a >= b THEN a ELSE b

\* math.floor(a / n) for n > 0
FloorDiv(a, n) == a \div n

\* a % n for n > 0 (Python's result has the sign of the divisor)
PyMod(a, n) == a % n

RECURSIVE Repeat(_, _)
Repeat(k, s) == IF k <= 0 THEN <<>> ELSE s \o Repeat(k - 1, s)

\* a list that wrapped every negative key around instead of raising
PyIndexWrapNeg(n, key) ==
  IF n > 0 /\ key < 0 THEN key % n
  ELSE IF key >= 0 /\ key < n THEN key ELSE -1

\* list[key] position: a negative key counts from the end once; -1 is IndexError
PyIndex(n, key) ==
  LET p == IF key < 0 THEN key + n ELSE key
  IN IF p >= 0 /\ p < n THEN p ELSE -1

\* slice.indices(n): the bounds a list clamps a slice to, for step # 0
AdjustBound(o, step, n, isStart) ==
  IF o = None
    THEN (IF step > 0 THEN (IF isStart THEN 0 ELSE n)
                      ELSE (IF isStart THEN n - 1 ELSE -1))
    ELSE LET v == o[1]
             w == IF v < 0 THEN v + n ELSE v
         IN IF v < 0
              THEN (IF w < 0 THEN (IF step < 0 THEN -1 ELSE 0) ELSE w)
              ELSE (IF w >= n THEN (IF step < 0 THEN n - 1 ELSE n) ELSE w)

\* the positions list[start:stop:step] addresses, in order, for step # 0
PyIndices(start, stop, step, n) ==
  LET k  == Default(step, 1)
      lo == AdjustBound(start, k, n, TRUE)
      hi == AdjustBound(stop, k, n, FALSE)
      cnt == IF k > 0
               THEN (IF hi > lo THEN ((hi - lo - 1) \div k) + 1 ELSE 0)
               ELSE (IF lo > hi THEN ((lo - hi - 1) \div (0 - k)) + 1 ELSE 0)
  IN [j \in 1..cnt |-> lo + (j - 1) * k]

\* list[start:stop:step] as a value; step 0 is ValueError
PySlice(s, start, stop, step) ==
  IF Default(step, 1) = 0
    THEN [err |-> "ValueError", val |-> <<>>]
    ELSE LET ix == PyIndices(start, stop, step, Len(s))
         IN [err |-> "none", val |-> [j \in 1..Len(ix) |-> At(s, ix[j])]]

\* list[a:b] for two given integer bounds
Cut(s, a, b) == PySlice(s, Some(a), Some(b), None).val

\* list[a:]
From(s, a) == PySlice(s, Some(a), None, None).val

\* list[:b]
Upto(s, b) == PySlice(s, None, Some(b), None).val

RECURSIVE KeepOutside(_, _, _)
KeepOutside(s, P, p) ==
  IF p >= Len(s) THEN <<>>
  ELSE (IF p \in P THEN <<>> ELSE <<At(s, p)>>) \o KeepOutside(s, P, p + 1)

\* del list[p]
PyDelIndex(s, p) == KeepOutside(s, {p}, 0)

\* del list[start:stop:step]
PyDelSlice(s, start, stop, step) ==
  IF Default(step, 1) = 0
    THEN [err |-> "ValueError", val |-> s]
    ELSE LET ix == PyIndices(start, stop, step, Len(s))
         IN [err |-> "none", val |-> KeepOutside(s, {ix[j] : j \in 1..Len(ix)}, 0)]

\* list[start:stop:step] = rhs
PySetSlice(s, start, stop, step, rhs) ==
  LET k == Default(step, 1)
      n == Len(s)
  IN IF k = 0 THEN [err |-> "ValueError", val |-> s]
     ELSE IF k = 1
       THEN LET lo == AdjustBound(start, 1, n, TRUE)
                h0 == AdjustBound(stop, 1, n, FALSE)
                hi == IF h0 < lo THEN lo ELSE h0
            IN [err |-> "none", val |-> Cut(s, 0, lo) \o rhs \o Cut(s, hi, n)]
       ELSE LET ix == PyIndices(start, stop, step, n)
            IN IF Len(ix) # Len(rhs)
                 THEN [err |-> "ValueError", val |-> s]
                 ELSE [err |-> "none",
                       val |-> [p \in 1..n |->
                                 IF \E j \in 1..Len(ix) : ix[j] = p - 1
                                   THEN rhs[CHOOSE j \in 1..Len(ix) : ix[j] = p - 1]
                                   ELSE s[p]]]

(***************************************************************************)
(* CyclicList                                                              *)
(***************************************************************************)

\* __getitem__ without the modulo: the plain list's lookup
GetItemNoWrap(s, item) ==
  LET p == PyIndex(Len(s), item)
  IN IF p = -1 THEN [err |-> "IndexError", val |-> <<>>]
     ELSE [err |-> "none", val |-> <<At(s, p)>>]

\* __getitem__ that goes round the list once only: item - len(self), not the modulo
GetItemWrapOnce(s, item) ==
  LET n == Len(s)
      p == IF item >= n /\ n > 0 THEN PyIndex(n, item - n) ELSE PyIndex(n, item)
  IN IF p = -1 THEN [err |-> "IndexError", val |-> <<>>]
     ELSE [err |-> "none", val |-> <<At(s, p)>>]

\* CyclicList.__getitem__ with an integer item
GetItem(s, item) ==
  LET n == Len(s)
      p == IF item >= 0 /\ n > 0 THEN PyMod(item, n) ELSE PyIndex(n, item)
  IN IF p = -1 THEN [err |-> "IndexError", val |-> <<>>]
     ELSE [err |-> "none", val |-> <<At(s, p)>>]

\* the position CyclicList.__setitem__ / __delitem__ resolve an integer key to
Resolve(s, key) ==
  LET n == Len(s)
  IN IF key >= 0 /\ n > 0 THEN PyMod(key, n) ELSE PyIndex(n, key)

\* __setitem__ without the modulo
SetItemNoWrap(s, key, value) ==
  LET p == PyIndex(Len(s), key)
  IN IF p = -1 THEN [err |-> "IndexError", val |-> s]
     ELSE [err |-> "none", val |-> [s EXCEPT ![p + 1] = value]]

\* __setitem__ that takes a key past the end to the last position
SetItemClamp(s, key, value) ==
  LET p == IF key >= Len(s) /\ Len(s) > 0 THEN Len(s) - 1 ELSE Resolve(s, key)
  IN IF p = -1 THEN [err |-> "IndexError", val |-> s]
     ELSE [err |-> "none", val |-> [s EXCEPT ![p + 1] = value]]

\* CyclicList.__setitem__ with an integer key
SetItem(s, key, value) ==
  LET p == Resolve(s, key)
  IN IF p = -1 THEN [err |-> "IndexError", val |-> s]
     ELSE [err |-> "none", val |-> [s EXCEPT ![p + 1] = value]]

\* __delitem__ without the modulo
DelItemNoWrap(s, key) ==
  LET p == PyIndex(Len(s), key)
  IN IF p = -1 THEN [err |-> "IndexError", val |-> s]
     ELSE [err |-> "none", val |-> PyDelIndex(s, p)]

\* CyclicList.__delitem__ with an integer key
DelItem(s, key) ==
  LET p == Resolve(s, key)
  IN IF p = -1 THEN [err |-> "IndexError", val |-> s]
     ELSE [err |-> "none", val |-> PyDelIndex(s, p)]

\* the assembly with one full copy too many between the tail and the head
AssembleExtraLap(s, start, stop) ==
  LET n == Len(s)
      list_for_start == FloorDiv(start, n)
      list_for_stop  == FloorDiv(stop, n)
      entire_lists   == Max(0, list_for_stop - list_for_start)
  IN IF list_for_stop = list_for_start
       THEN Cut(s, PyMod(start, n), PyMod(stop, n)) \o <<At(s, PyMod(stop, n))>>
       ELSE From(s, PyMod(start, n))
            \o Repeat(entire_lists, s)
            \o Upto(s, PyMod(stop, n))
            \o <<At(s, PyMod(stop, n))>>

\* the assembly that forgets the element at the inclusive stop within one lap
AssembleDropLast(s, start, stop) ==
  LET n == Len(s)
      list_for_start == FloorDiv(start, n)
      list_for_stop  == FloorDiv(stop, n)
      entire_lists   == Max(0, list_for_stop - list_for_start - 1)
  IN IF list_for_stop = list_for_start
       THEN Cut(s, PyMod(start, n), PyMod(stop, n))
       ELSE From(s, PyMod(start, n))
            \o Repeat(entire_lists, s)
            \o Upto(s, PyMod(stop, n))
            \o <<At(s, PyMod(stop, n))>>

\* the list __getitem__ assembles for a slice, before the step is applied
Assemble(s, start, stop) ==
  LET n == Len(s)
      list_for_start == FloorDiv(start, n)
      list_for_stop  == FloorDiv(stop, n)
      entire_lists   == Max(0, list_for_stop - list_for_start - 1)
  IN IF list_for_stop = list_for_start
       THEN Cut(s, PyMod(start, n), PyMod(stop, n)) \o <<At(s, PyMod(stop, n))>>
       ELSE From(s, PyMod(start, n))
            \o Repeat(entire_lists, s)
            \o Upto(s, PyMod(stop, n))
            \o <<At(s, PyMod(stop, n))>>

\* a slice get that steps through the stored list first and wraps afterwards
GetSliceStepFirst(s, sl) ==
  LET start == Default(sl.start, 0)
      stop  == Default(sl.stop, Len(s)) - 1
  IN IF start > stop THEN [err |-> "none", val |-> <<>>]
     ELSE IF Len(s) = 0 THEN [err |-> "ZeroDivisionError", val |-> <<>>]
     ELSE IF Default(sl.step, 1) >= 2
       THEN [err |-> "none",
             val |-> Assemble(PySlice(s, None, None, sl.step).val, start, stop)]
     ELSE PySlice(Assemble(s, start, stop), None, None, sl.step)

\* CyclicList.__getitem__ with a slice item
GetSlice(s, sl) ==
  LET start == Default(sl.start, 0)
      stop  == Default(sl.stop, Len(s)) - 1
  IN IF start > stop THEN [err |-> "none", val |-> <<>>]
     ELSE IF Len(s) = 0 THEN [err |-> "ZeroDivisionError", val |-> <<>>]
     ELSE PySlice(Assemble(s, start, stop), None, None, sl.step)

\* CyclicList.__setitem__ with a slice key
SetSlice(s, sl, rhs) == PySetSlice(s, sl.start, sl.stop, sl.step, rhs)

\* a slice delete that wrapped its positions around as a slice get does
DelSliceWrap(s, sl) ==
  LET n  == Len(s)
      lo == Default(sl.start, 0)
      hi == Default(sl.stop, n)
  IN IF Default(sl.step, 1) # 1 \/ n = 0 THEN PyDelSlice(s, sl.start, sl.stop, sl.step)
     ELSE [err |-> "none", val |-> KeepOutside(s, {PyMod(i, n) : i \in lo..(hi - 1)}, 0)]

\* CyclicList.__delitem__ with a slice key
DelSlice(s, sl) == PyDelSlice(s, sl.start, sl.stop, sl.step)

Slices == [start : OptIndices, stop : OptIndices, step : Steps]

NoSlice == [start |-> None, stop |-> None, step |-> None]

\* the slices the mutable-container specification draws its keys from
NearBounds == {None} \cup {Some(i) : i \in (0 - 1)..MaxLen}

NearSlices == [start : NearBounds, stop : NearBounds, step : {None}]

Idle == [op |-> "init", key |-> 0, sl |-> NoSlice, value |-> <<>>,
         pre |-> <<>>, err |-> "none", val |-> <<>>]

SegIdle == [op |-> "init", a |-> <<0, 0>>, b |-> <<0, 0>>, c |-> <<0, 0>>, d |-> <<0, 0>>,
            err |-> "none", res |-> <<>>, hit |-> FALSE]

\* no vector: the receiver, operand or result a call does not have
NoVec == [enc |-> "none", x |-> <<0, 0, 1>>, y |-> <<0, 0, 1>>, r |-> <<0, 0, 1>>, t |-> 0]

VecIdle == [op |-> "init", recv |-> NoVec, other |-> NoVec, k |-> 0, angle |-> 0,
            args |-> [x |-> None, y |-> None, r |-> None, t |-> None],
            err |-> "none", res |-> NoVec, first |-> NoVec, turns |-> 0]

\* CyclicList(x)
Init ==
  /\ data \in Lists
  /\ last = Idle
  /\ prevLen = Len(data)
  /\ seg = SegIdle
  /\ vec = VecIdle
  /\ live = <<>>

\* the record of a finished call
Done(op, key, sl, value, pre, err, val) ==
  [op |-> op, key |-> key, sl |-> sl, value |-> value, pre |-> pre, err |-> err, val |-> val]

\* x = cl[item]
DoGetItem ==
  \E item \in Indices :
    LET r == GetItem(data, item)
    IN /\ last' = Done("getitem", item, NoSlice, <<>>, data, r.err, r.val)
       /\ UNCHANGED <<data, prevLen, seg, vec, live>>

\* x = cl[start:stop]
DoGetSlice ==
  \E sl \in NearSlices :
    LET r == GetSlice(data, sl)
    IN /\ last' = Done("getslice", 0, sl, <<>>, data, r.err, r.val)
       /\ UNCHANGED <<data, prevLen, seg, vec, live>>

\* cl[key] = value
DoSetItem ==
  \E key \in Indices, value \in Values :
    LET r == SetItem(data, key, value)
    IN /\ data' = r.val
       /\ last' = Done("setitem", key, NoSlice, <<value>>, data, r.err, <<>>)
       /\ prevLen' = IF r.err = "none" THEN Len(data) ELSE prevLen
       /\ UNCHANGED <<seg, vec, live>>

\* del cl[key]
DoDelItem ==
  \E key \in Indices :
    LET r == DelItem(data, key)
    IN /\ data' = r.val
       /\ last' = Done("delitem", key, NoSlice, <<>>, data, r.err, <<>>)
       /\ prevLen' = IF r.err = "none" THEN Len(data) ELSE prevLen
       /\ UNCHANGED <<seg, vec, live>>

\* cl[start:stop] = rhs
DoSetSlice ==
  \E sl \in NearSlices, rhs \in ShortRhs :
    LET r == SetSlice(data, sl, rhs)
    IN /\ Len(r.val) <= MaxLen
       /\ data' = r.val
       /\ last' = Done("setslice", 0, sl, rhs, data, r.err, <<>>)
       /\ prevLen' = IF r.err = "none" THEN Len(data) ELSE prevLen
       /\ UNCHANGED <<seg, vec, live>>

\* del cl[start:stop]
DoDelSlice ==
  \E sl \in NearSlices :
    LET r == DelSlice(data, sl)
    IN /\ data' = r.val
       /\ last' = Done("delslice", 0, sl, <<>>, data, r.err, <<>>)
       /\ prevLen' = IF r.err = "none" THEN Len(data) ELSE prevLen
       /\ UNCHANGED <<seg, vec, live>>

Next ==
  \/ DoGetItem
  \/ DoGetSlice
  \/ DoSetItem
  \/ DoDelItem
  \/ DoSetSlice
  \/ DoDelSlice

Spec == Init /\ [][Next]_vars

(***************************************************************************)
(* The container with a record of its index assignments: live[p + 1] is    *)
(* <<v>> when the latest write to position p was an assignment cl[i] = v   *)
(* by a single index and no element has been removed or inserted since,    *)
(* and <<>> otherwise.                                                     *)
(***************************************************************************)
\* the position a single index i addresses on a list of length n
PositionOf(i, n) == IF i >= 0 THEN i % n ELSE n + i

NoneLive(n) == [p \in 1..n |-> None]

\* the record after a slice write that turned pre into post
LiveAfterSlice(l, pre, post) ==
  IF Len(post) # Len(pre) THEN NoneLive(Len(post))
  ELSE [p \in 1..Len(post) |-> IF post[p] = pre[p] THEN l[p] ELSE None]

\* CyclicList(x)
InitLive ==
  /\ data \in Lists
  /\ last = Idle
  /\ prevLen = Len(data)
  /\ seg = SegIdle
  /\ vec = VecIdle
  /\ live = NoneLive(Len(data))

\* x = cl[item]
LiveGetItem ==
  \E item \in Indices :
    LET r == GetItem(data, item)
    IN /\ last' = Done("getitem", item, NoSlice, <<>>, data, r.err, r.val)
       /\ UNCHANGED <<data, prevLen, seg, vec, live>>

\* cl[key] = value
LiveSetItem ==
  \E key \in Indices, value \in Values :
    LET r == SetItem(data, key, value)
    IN /\ data' = r.val
       /\ last' = Done("setitem", key, NoSlice, <<value>>, data, r.err, <<>>)
       /\ prevLen' = IF r.err = "none" THEN Len(data) ELSE prevLen
       /\ live' = IF r.err = "none"
                    THEN [live EXCEPT ![PositionOf(key, Len(data)) + 1] = Some(value)]
                    ELSE live
       /\ UNCHANGED <<seg, vec>>

\* del cl[key]
LiveDelItem ==
  \E key \in Indices :
    LET r == DelItem(data, key)
    IN /\ data' = r.val
       /\ last' = Done("delitem", key, NoSlice, <<>>, data, r.err, <<>>)
       /\ prevLen' = IF r.err = "none" THEN Len(data) ELSE prevLen
       /\ live' = IF r.err = "none" THEN NoneLive(Len(r.val)) ELSE live
       /\ UNCHANGED <<seg, vec>>

\* cl[start:stop] = rhs
LiveSetSlice ==
  \E sl \in NearSlices, rhs \in ShortRhs :
    LET r == SetSlice(data, sl, rhs)
    IN /\ Len(r.val) <= MaxLen
       /\ data' = r.val
       /\ last' = Done("setslice", 0, sl, rhs, data, r.err, <<>>)
       /\ prevLen' = IF r.err = "none" THEN Len(data) ELSE prevLen
       /\ live' = LiveAfterSlice(live, data, r.val)
       /\ UNCHANGED <<seg, vec>>

\* del cl[start:stop]
LiveDelSlice ==
  \E sl \in NearSlices :
    LET r == DelSlice(data, sl)
    IN /\ data' = r.val
       /\ last' = Done("delslice", 0, sl, <<>>, data, r.err, <<>>)
       /\ prevLen' = IF r.err = "none" THEN Len(data) ELSE prevLen
       /\ live' = LiveAfterSlice(live, data, r.val)
       /\ UNCHANGED <<seg, vec>>

NextLive ==
  \/ LiveGetItem
  \/ LiveSetItem
  \/ LiveDelItem
  \/ LiveSetSlice
  \/ LiveDelSlice

SpecLive == InitLive /\ [][NextLive]_vars

(***************************************************************************)
(* The slice operations as functions of their arguments: a list, a slice   *)
(* of any bounds and step and, for an assignment, a right-hand side are    *)
(* drawn, and the call is applied once.                                    *)
(***************************************************************************)
Pending(op, sl, value) ==
  [op |-> op, key |-> 0, sl |-> sl, value |-> value, pre |-> <<>>,
   err |-> "pending", val |-> <<>>]

InitSlice ==
  /\ data \in Lists
  /\ last \in {Pending("getslice", sl, <<>>) : sl \in Slices}
         \cup {Pending("delslice", sl, <<>>) : sl \in Slices}
         \cup {Pending("setslice", sl, rhs) : sl \in Slices, rhs \in Rhs}
  /\ prevLen = Len(data)
  /\ seg = SegIdle
  /\ vec = VecIdle
  /\ live = <<>>

\* x = cl[start:stop:step]
RunGetSlice ==
  /\ last.op = "getslice" /\ last.err = "pending"
  /\ LET r == GetSlice(data, last.sl)
     IN last' = Done("getslice", 0, last.sl, <<>>, data, r.err, r.val)
  /\ UNCHANGED <<data, prevLen, seg, vec, live>>

\* cl[start:stop:step] = rhs
RunSetSlice ==
  /\ last.op = "setslice" /\ last.err = "pending"
  /\ LET r == SetSlice(data, last.sl, last.value)
     IN /\ data' = r.val
        /\ last' = Done("setslice", 0, last.sl, last.value, data, r.err, <<>>)
  /\ UNCHANGED <<prevLen, seg, vec, live>>

\* del cl[start:stop:step]
RunDelSlice ==
  /\ last.op = "delslice" /\ last.err = "pending"
  /\ LET r == DelSlice(data, last.sl)
     IN /\ data' = r.val
        /\ last' = Done("delslice", 0, last.sl, <<>>, data, r.err, <<>>)
  /\ UNCHANGED <<prevLen, seg, vec, live>>

NextSlice ==
  \/ RunGetSlice
  \/ RunSetSlice
  \/ RunDelSlice

SpecSlice == InitSlice /\ [][NextSlice]_vars

(***************************************************************************)
(* Segment2D.  A point or a vector is a pair <<x, y>>.  Coordinates are    *)
(* integers; the quotients the code computes are exact rationals <<n, d>>  *)
(* with d > 0, so the rounding of floating-point division is not modelled. *)
(***************************************************************************)
MaxCoord == 1

Coords == (0 - MaxCoord)..MaxCoord
Points == Coords \X Coords

\* a / b for b # 0
RatDiv(a, b) == IF b > 0 THEN <<a, b>> ELSE <<0 - a, 0 - b>>

\* 0 <= q <= 1
InUnit(q) == 0 <= q[1] /\ q[1] <= q[2]

\* Point2D.__sub__ with a Point2D operand: the vector from q to p
PointSub(p, q) == <<p[1] - q[1], p[2] - q[2]>>

\* the intersection without the return for a singular system
IntersectionNoParallelCheck(a, b, c, d) ==
  LET v1    == PointSub(b, a)
      v2    == PointSub(d, c)
      denom == v1[2] * v2[1] - v1[1] * v2[2]
      numer == v1[1] * (c[2] - a[2]) - v1[2] * (c[1] - a[1])
      u     == RatDiv(numer, denom)
      tnum  == u[1] * v2[1] + (c[1] - a[1]) * u[2]
      t     == RatDiv(tnum, u[2] * v1[1])
  IN IF denom = 0 \/ v1[1] = 0 THEN [err |-> "ZeroDivisionError", res |-> <<>>]
     ELSE IF InUnit(u) /\ InUnit(t)
       THEN [err |-> "none",
             res |-> << <<c[1] * u[2] + u[1] * v2[1], u[2]>>,
                        <<c[2] * u[2] + u[1] * v2[2], u[2]>> >>]
       ELSE [err |-> "none", res |-> <<>>]

\* Segment2D.intersection; res is <<>> for None, else <<x, y>> with rational x, y
Intersection(a, b, c, d) ==
  LET v1    == PointSub(b, a)
      v2    == PointSub(d, c)
      denom == v1[2] * v2[1] - v1[1] * v2[2]
      numer == v1[1] * (c[2] - a[2]) - v1[2] * (c[1] - a[1])
      u     == RatDiv(numer, denom)
      \* u * v2.x + other.a.x - self.a.x, over the denominator of u
      tnum  == u[1] * v2[1] + (c[1] - a[1]) * u[2]
      t     == RatDiv(tnum, u[2] * v1[1])
  IN IF denom = 0 THEN [err |-> "none", res |-> <<>>]
     ELSE IF v1[1] = 0 THEN [err |-> "ZeroDivisionError", res |-> <<>>]
     ELSE IF InUnit(u) /\ InUnit(t)
       THEN [err |-> "none",
             res |-> << <<c[1] * u[2] + u[1] * v2[1], u[2]>>,
                        <<c[2] * u[2] + u[1] * v2[2], u[2]>> >>]
       ELSE [err |-> "none", res |-> <<>>]

\* Segment2D.intersects_with
IntersectsWith(a, b, c, d) ==
  LET r == Intersection(a, b, c, d)
  IN [err |-> r.err, hit |-> (r.err = "none" /\ r.res # <<>>)]

SegCall(op, a, b, c, d) ==
  [op |-> op, a |-> a, b |-> b, c |-> c, d |-> d,
   err |-> "pending", res |-> <<>>, hit |-> FALSE]

\* Segment2D(a, b) and Segment2D(c, d), and the call about to be made on them
InitSeg ==
  /\ data = <<>>
  /\ last = Idle
  /\ prevLen = 0
  /\ seg \in {SegCall(op, a, b, c, d) :
                op \in {"intersection", "intersects_with"},
                a \in Points, b \in Points, c \in Points, d \in Points}
  /\ vec = VecIdle
  /\ live = <<>>

\* Segment2D(a, b).intersection(Segment2D(c, d))
RunIntersection ==
  /\ seg.op = "intersection" /\ seg.err = "pending"
  /\ LET r == Intersection(seg.a, seg.b, seg.c, seg.d)
     IN seg' = [seg EXCEPT !.err = r.err, !.res = r.res, !.hit = (r.res # <<>>)]
  /\ UNCHANGED <<data, last, prevLen, vec, live>>

\* Segment2D(a, b).intersects_with(Segment2D(c, d))
RunIntersectsWith ==
  /\ seg.op = "intersects_with" /\ seg.err = "pending"
  /\ LET r == IntersectsWith(seg.a, seg.b, seg.c, seg.d)
     IN seg' = [seg EXCEPT !.err = r.err, !.hit = r.hit]
  /\ UNCHANGED <<data, last, prevLen, vec, live>>

NextSeg ==
  \/ RunIntersection
  \/ RunIntersectsWith

SpecSeg == InitSeg /\ [][NextSeg]_vars

(***************************************************************************)
(* Vector2D and Point2D.  A length or a coordinate is an exact number      *)
(* (a + b * sqrt(2)) / d, written <<a, b, d>> with d > 0 in lowest terms,  *)
(* so that the sines, cosines and lengths of the eight compass directions  *)
(* are exact; the rounding of floating-point products and quotients is not *)
(* modelled.  An angle is a float of short precision: an integer number   *)
(* of units, where every integer below Ulp in magnitude is representable   *)
(* and, from Ulp upwards, only the multiples of Ulp are; an eighth of a    *)
(* turn is two such multiples, and a sum of angles rounds to the nearest   *)
(* representable value, as float addition does.                            *)
(***************************************************************************)
MaxComp == 1
MaxR == 2
MaxScalar == 2
MaxEighths == 10
Ulp == 4

Abs(a) == IF a < 0 THEN 0 - a ELSE a

RECURSIVE Gcd(_, _)
Gcd(a, b) == IF b = 0 THEN a ELSE Gcd(b, a % b)

\* the number (a + b * sqrt(2)) / d, d # 0, in lowest terms
Num(a, b, d) ==
  LET g == Gcd(Gcd(Abs(a), Abs(b)), Abs(d))
      s == IF d < 0 THEN 0 - g ELSE g
  IN <<a \div s, b \div s, d \div s>>

Whole(k) == <<k, 0, 1>>
Zero == Whole(0)
One == Whole(1)

\* -1, 0 or 1 as a + b * sqrt(2) is negative, zero or positive
SignOf(a, b) ==
  IF a = 0 /\ b = 0 THEN 0
  ELSE IF a >= 0 /\ b >= 0 THEN 1
  ELSE IF a <= 0 /\ b <= 0 THEN 0 - 1
  ELSE IF a > 0 THEN (IF a * a > 2 * b * b THEN 1 ELSE 0 - 1)
  ELSE (IF 2 * b * b > a * a THEN 1 ELSE 0 - 1)

NSign(p) == SignOf(p[1], p[2])
NAdd(p, q) == Num(p[1] * q[3] + q[1] * p[3], p[2] * q[3] + q[2] * p[3], p[3] * q[3])
NNeg(p) == <<0 - p[1], 0 - p[2], p[3]>>
NSub(p, q) == NAdd(p, NNeg(q))
NMul(p, q) == Num(p[1] * q[1] + 2 * p[2] * q[2], p[1] * q[2] + p[2] * q[1], p[3] * q[3])
\* p / q for q # 0: p * conj(q) over the norm of q
NDiv(p, q) ==
  NMul(p, Num((q[1]) * q[3], (0 - q[2]) * q[3], q[1] * q[1] - 2 * q[2] * q[2]))
NGe(p, q) == NSign(NSub(p, q)) >= 0

\* the square root of a rational p >= 0 that is m * m or 2 * m * m over a square
NSqrt(p) ==
  LET n == p[1] * p[3]
  IN IF \E m \in 0..n : m * m = n
       THEN Num(CHOOSE m \in 0..n : m * m = n, 0, p[3])
       ELSE Num(0, CHOOSE m \in 0..n : 2 * m * m = n, p[3])

\* math.tau, math.pi, pi/2 and 3*pi/2 on the angle grid
Eighth == 2 * Ulp
Tau == 8 * Eighth
Pi == 4 * Eighth
HalfPi == 2 * Eighth
ThreeHalfPi == 6 * Eighth

\* the representable angle nearest to v, ties to the even multiple of Ulp
Round(v) ==
  LET lo  == (v \div Ulp) * Ulp
      rem == v - lo
  IN IF Abs(v) < Ulp THEN v
     ELSE IF 2 * rem < Ulp THEN lo
     ELSE IF 2 * rem > Ulp THEN lo + Ulp
     ELSE IF (lo \div Ulp) % 2 = 0 THEN lo ELSE lo + Ulp

\* a + b on floats
FloatAdd(a, b) == Round(a + b)

\* C fmod: the remainder with the sign of t, always exact
Fmod(t, m) == IF t >= 0 THEN t % m ELSE 0 - ((0 - t) % m)

\* normalize_t: the float t % tau, i.e. fmod, plus tau when it is negative
normalize_t(t) ==
  LET mod == Fmod(t, Tau)
  IN IF mod < 0 THEN FloatAdd(mod, Tau) ELSE mod

\* np.cos and np.sin of a whole number of eighth turns
Cos(t) ==
  LET e == (t \div Eighth) % 8
  IN CASE e = 0 -> One
       [] e \in {1, 7} -> <<0, 1, 2>>
       [] e \in {2, 6} -> Zero
       [] e \in {3, 5} -> <<0, 0 - 1, 2>>
       [] e = 4 -> <<0 - 1, 0, 1>>

Sin(t) == Cos(t - HalfPi)

\* x and y lie on one of the eight compass directions, or are both 0
IsCompass(x, y) == NSign(x) = 0 \/ NSign(y) = 0 \/ x = y \/ x = NNeg(y)

\* np.arctan2(y, x) for a compass direction: an angle in (-pi, pi]
Atan2(y, x) ==
  LET sx == NSign(x)
      sy == NSign(y)
  IN IF sy = 0 THEN (IF sx < 0 THEN Pi ELSE 0)
     ELSE IF sx = 0 THEN sy * HalfPi
     ELSE IF sx > 0 THEN sy * Eighth
     ELSE sy * 3 * Eighth

Ok(v) == [err |-> "none", res |-> v]
Fail(e) == [err |-> e, res |-> NoVec]

Cartesian(x, y) == [enc |-> "cartesian", x |-> x, y |-> y, r |-> Zero, t |-> 0]
Polar(r, t) == [enc |-> "polar", x |-> Zero, y |-> Zero, r |-> r, t |-> t]
Point(x, y) == [enc |-> "point", x |-> x, y |-> y, r |-> Zero, t |-> 0]

\* Vector2DCartesian(x, y)
NewCartesian(x, y) == Ok(Cartesian(x, y))

\* Vector2DPolar(r, t)
NewPolar(r, t) ==
  IF NSign(r) < 0 THEN Fail("AssertionError")
  ELSE Ok(Polar(r, IF r # Zero THEN normalize_t(t) ELSE 0))

\* a construction that stops at what __new__ returns
NewVectorNoInit(args) ==
  LET hasXY == args.x # None /\ args.y # None
      hasRT == args.r # None /\ args.t # None
  IN IF ~(hasXY \/ hasRT) THEN Fail("AssertionError")
     ELSE IF hasXY THEN NewCartesian(Whole(args.x[1]), Whole(args.y[1]))
     ELSE NewPolar(Whole(args.r[1]), args.t[1])

\* Vector2D(x=.., y=.., r=.., t=..) with any of the four left out: __new__
\* builds the vector, and the object it returns being a Vector2D, __init__ of
\* its class then runs on it with the same arguments
NewVector(args) ==
  LET hasXY == args.x # None /\ args.y # None
      hasRT == args.r # None /\ args.t # None
  IN IF ~(hasXY \/ hasRT) THEN Fail("AssertionError")
     ELSE IF hasXY
       THEN IF args.r # None \/ args.t # None THEN Fail("TypeError")
            ELSE NewCartesian(Whole(args.x[1]), Whole(args.y[1]))
     ELSE IF NewPolar(Whole(args.r[1]), args.t[1]).err # "none"
       THEN NewPolar(Whole(args.r[1]), args.t[1])
     ELSE IF args.x # None \/ args.y # None THEN Fail("TypeError")
     ELSE NewPolar(Whole(args.r[1]), args.t[1])

\* to_cartesian
ToCartesian(v) ==
  IF v.enc = "cartesian" THEN v
  ELSE Cartesian(NMul(v.r, Cos(v.t)), NMul(v.r, Sin(v.t)))

\* length
Length(v) ==
  IF v.enc = "cartesian" THEN NSqrt(NAdd(NMul(v.x, v.x), NMul(v.y, v.y)))
  ELSE v.r

\* to_polar
ToPolar(v) ==
  IF v.enc = "cartesian" THEN NewPolar(Length(v), Atan2(v.y, v.x)).res
  ELSE v

\* __neg__
Neg(v) ==
  IF v.enc = "cartesian" THEN Ok(Cartesian(NNeg(v.x), NNeg(v.y)))
  ELSE NewPolar(v.r, normalize_t(FloatAdd(v.t, Pi)))

\* __add__ with a vector operand
Add(v, w) ==
  IF v.enc = "polar" /\ w.enc = "polar" /\ v.t = w.t
    THEN NewPolar(NAdd(v.r, w.r), v.t)
    ELSE NewCartesian(NAdd(ToCartesian(v).x, ToCartesian(w).x),
                      NAdd(ToCartesian(v).y, ToCartesian(w).y))

\* a subtraction that keeps the receiver's angle whichever magnitude is larger
SubNoFlip(v, w) ==
  IF v.enc = "polar" /\ w.enc = "polar" /\ v.t = w.t
    THEN NewPolar(NSub(v.r, w.r), v.t)
    ELSE NewCartesian(NSub(ToCartesian(v).x, ToCartesian(w).x),
                      NSub(ToCartesian(v).y, ToCartesian(w).y))

\* __sub__
Sub(v, w) ==
  IF v.enc = "polar" /\ w.enc = "polar" /\ v.t = w.t
    THEN IF NGe(v.r, w.r)
           THEN NewPolar(NSub(v.r, w.r), v.t)
           ELSE NewPolar(NSub(w.r, v.r), normalize_t(FloatAdd(v.t, Pi)))
    ELSE NewCartesian(NSub(ToCartesian(v).x, ToCartesian(w).x),
                      NSub(ToCartesian(v).y, ToCartesian(w).y))

\* __mul__ of a point or a vector with a real scalar
Mul(v, k) ==
  IF v.enc = "point"
    THEN IF k = Zero THEN Ok(Point(Zero, Zero))
         ELSE Ok(Point(NMul(v.x, k), NMul(v.y, k)))
  ELSE IF k = Zero THEN NewVector([x |-> Some(0), y |-> Some(0), r |-> None, t |-> None])
  ELSE IF v.enc = "cartesian" THEN NewCartesian(NMul(v.x, k), NMul(v.y, k))
  ELSE NewPolar(NMul(v.r, k), v.t)

\* a division that takes the 0 case of the multiplication
TrueDivZeroAsMul(v, k) ==
  IF k = Zero THEN Mul(v, k)
  ELSE IF v.enc = "point" THEN Ok(Point(NDiv(v.x, k), NDiv(v.y, k)))
  ELSE IF v.enc = "cartesian" THEN NewCartesian(NDiv(v.x, k), NDiv(v.y, k))
  ELSE NewPolar(NDiv(v.r, k), v.t)

\* __truediv__ of a point or a vector with a real scalar
TrueDiv(v, k) ==
  IF k = Zero THEN Fail("ZeroDivisionError")
  ELSE IF v.enc = "point" THEN Ok(Point(NDiv(v.x, k), NDiv(v.y, k)))
  ELSE IF v.enc = "cartesian" THEN NewCartesian(NDiv(v.x, k), NDiv(v.y, k))
  ELSE NewPolar(NDiv(v.r, k), v.t)

\* a unit that divides by the length without looking at it
UnitNoZeroCheck(v) ==
  IF v.enc = "cartesian" THEN TrueDiv(v, Length(v))
  ELSE NewPolar(One, v.t)

\* unit
Unit(v) ==
  IF v.enc = "cartesian"
    THEN IF Length(v) # Zero THEN TrueDiv(v, Length(v)) ELSE Ok(v)
    ELSE NewPolar(One, v.t)

\* Vector2DPolar.rotate
RotatePolar(v, angle) == NewPolar(v.r, normalize_t(FloatAdd(v.t, angle)))

\* a rotation whose quarter turns go clockwise
RotateClockwise(v, angle) ==
  IF v.enc = "polar" THEN RotatePolar(v, angle)
  ELSE IF normalize_t(angle) = 0 THEN Ok(v)
  ELSE IF normalize_t(angle) = HalfPi THEN NewCartesian(v.y, NNeg(v.x))
  ELSE IF normalize_t(angle) = Pi THEN Neg(v)
  ELSE IF normalize_t(angle) = ThreeHalfPi THEN NewCartesian(NNeg(v.y), v.x)
  ELSE RotatePolar(ToPolar(v), angle)

\* rotate
Rotate(v, angle) ==
  IF v.enc = "polar" THEN RotatePolar(v, angle)
  ELSE IF normalize_t(angle) = 0 THEN Ok(v)
  ELSE IF normalize_t(angle) = HalfPi THEN NewCartesian(NNeg(v.y), v.x)
  ELSE IF normalize_t(angle) = Pi THEN Neg(v)
  ELSE IF normalize_t(angle) = ThreeHalfPi THEN NewCartesian(v.y, NNeg(v.x))
  ELSE RotatePolar(ToPolar(v), angle)

MaxTurns == 4

Comps == (0 - MaxComp)..MaxComp
Scalars == (0 - MaxScalar)..MaxScalar

\* the angles a call is given: whole eighth turns, some beyond a full turn
\* either way, and the angles smaller in magnitude than the grid spacing
Angles == {e * Eighth : e \in (0 - MaxEighths)..MaxEighths} \cup ((1 - Ulp)..(Ulp - 1))

CartesianVecs == {Cartesian(Whole(x), Whole(y)) : x \in Comps, y \in Comps}
PolarVecs == {NewPolar(Whole(r), e * Eighth).res : r \in 0..MaxR, e \in 0..7}
Vectors == CartesianVecs \cup PolarVecs
PointVals == {Point(Whole(x), Whole(y)) : x \in Comps, y \in Comps}

NoArgs == [x |-> None, y |-> None, r |-> None, t |-> None]

ArgSets ==
  [x : {None} \cup {Some(c) : c \in Comps},
   y : {None} \cup {Some(c) : c \in Comps},
   r : {None} \cup {Some(c) : c \in (0 - 1)..MaxR},
   t : {None} \cup {Some(a) : a \in Angles}]

\* the length and the direction of v are exact numbers of the model
Exact(v) == v.enc = "cartesian" => IsCompass(v.x, v.y)

VecCall(op, recv, other, k, angle, args) ==
  [op |-> op, recv |-> recv, other |-> other, k |-> k, angle |-> angle, args |-> args,
   err |-> "pending", res |-> NoVec, first |-> recv, turns |-> 0]

\* the operands of a call about to be made
InitVec ==
  /\ data = <<>>
  /\ last = Idle
  /\ prevLen = 0
  /\ seg = SegIdle
  /\ live = <<>>
  /\ vec \in {VecCall("new", NoVec, NoVec, 0, 0, args) : args \in ArgSets}
        \cup {VecCall(op, v, NoVec, k, 0, NoArgs) :
                op \in {"mul", "div"}, v \in Vectors \cup PointVals, k \in Scalars}
        \cup {VecCall(op, v, w, 0, 0, NoArgs) :
                op \in {"add", "sub"}, v \in Vectors, w \in Vectors}
        \cup {VecCall("unit", v, NoVec, 0, 0, NoArgs) : v \in {u \in Vectors : Exact(u)}}
        \cup {VecCall("rotate", v, NoVec, 0, a, NoArgs) :
                v \in {u \in Vectors : Exact(u)}, a \in Angles}
        \cup {VecCall("rotate", v, NoVec, 0, q * HalfPi, NoArgs) :
                v \in Vectors, q \in (0 - 4)..5}

VecDone(r) == [vec EXCEPT !.err = r.err, !.res = r.res]

\* Vector2D(x=.., y=.., r=.., t=..)
RunNew ==
  /\ vec.op = "new" /\ vec.err = "pending"
  /\ vec' = VecDone(NewVector(vec.args))
  /\ UNCHANGED <<data, last, prevLen, seg, live>>

\* v * k
RunMul ==
  /\ vec.op = "mul" /\ vec.err = "pending"
  /\ vec' = VecDone(Mul(vec.recv, Whole(vec.k)))
  /\ UNCHANGED <<data, last, prevLen, seg, live>>

\* v / k
RunDiv ==
  /\ vec.op = "div" /\ vec.err = "pending"
  /\ vec' = VecDone(TrueDiv(vec.recv, Whole(vec.k)))
  /\ UNCHANGED <<data, last, prevLen, seg, live>>

\* v + w
RunAdd ==
  /\ vec.op = "add" /\ vec.err = "pending"
  /\ vec' = VecDone(Add(vec.recv, vec.other))
  /\ UNCHANGED <<data, last, prevLen, seg, live>>

\* v - w
RunSub ==
  /\ vec.op = "sub" /\ vec.err = "pending"
  /\ vec' = VecDone(Sub(vec.recv, vec.other))
  /\ UNCHANGED <<data, last, prevLen, seg, live>>

\* v.unit()
RunUnit ==
  /\ vec.op = "unit" /\ vec.err = "pending"
  /\ vec' = VecDone(Unit(vec.recv))
  /\ UNCHANGED <<data, last, prevLen, seg, live>>

\* v.rotate(angle), then the same rotation of what it returned
RunRotate ==
  /\ vec.op = "rotate"
  /\ \/ vec.err = "pending" /\ vec' = [VecDone(Rotate(vec.recv, vec.angle)) EXCEPT !.turns = 1]
     \/ /\ vec.err = "none" /\ vec.turns < MaxTurns
        /\ LET r == Rotate(vec.res, vec.angle)
           IN vec' = [vec EXCEPT !.recv = vec.res, !.err = r.err, !.res = r.res,
                                 !.turns = vec.turns + 1]
  /\ UNCHANGED <<data, last, prevLen, seg, live>>

NextVec ==
  \/ RunNew
  \/ RunMul
  \/ RunDiv
  \/ RunAdd
  \/ RunSub
  \/ RunUnit
  \/ RunRotate

SpecVec == InitVec /\ [][NextVec]_vars

(***************************************************************************)
(* Properties of CyclicList                                                *)
(***************************************************************************)
Finished(op) == last.op = op /\ last.err # "pending"

Given(o) == o # None

\* C1: on a non-empty list of length n, get by an index i >= 0 never fails
\* and returns the element stored at position i mod n, which is also what
\* get by i mod n returns.
C1_GetWraps ==
  (Finished("getitem") /\ last.key >= 0 /\ Len(last.pre) > 0) =>
    LET n == Len(last.pre)
    IN /\ last.err = "none"
       /\ last.val = <<At(last.pre, last.key % n)>>
       /\ GetItem(last.pre, last.key % n) = [err |-> "none", val |-> last.val]

C1_Witness ==
  /\ Finished("getitem")
  /\ Len(last.pre) >= 2
  /\ last.key >= Len(last.pre)
  /\ At(last.pre, last.key % Len(last.pre)) # At(last.pre, 0)
  /\ last.val = <<At(last.pre, last.key % Len(last.pre))>>

\* C2: on a non-empty list of length n, get by a slice without step whose
\* start (default 0) is below its stop (default n) returns stop - start
\* elements, the k-th being the stored element at position (start + k) mod n.
C2_SliceLaps ==
  (Finished("getslice") /\ Len(last.pre) > 0 /\ last.sl.step = None
     /\ Default(last.sl.start, 0) < Default(last.sl.stop, Len(last.pre))) =>
    LET n     == Len(last.pre)
        start == Default(last.sl.start, 0)
        stop  == Default(last.sl.stop, n)
    IN /\ last.err = "none"
       /\ Len(last.val) = stop - start
       /\ \A k \in 0..(stop - start - 1) : At(last.val, k) = At(last.pre, (start + k) % n)

C2_Witness ==
  /\ Finished("getslice")
  /\ last.sl.step = None
  /\ Len(last.pre) >= 2
  /\ Given(last.sl.start) /\ Given(last.sl.stop)
  /\ last.sl.start[1] < 0
  /\ last.sl.stop[1] - last.sl.start[1] > 2 * Len(last.pre)
  /\ Len(last.val) = last.sl.stop[1] - last.sl.start[1]

\* C3: whatever sets and deletes came before, a get by an index i >= 0 on a
\* list that is non-empty at that moment returns the element at position
\* i mod n for the length n the list has then, and changes nothing.
C3_GetUsesCurrentLength ==
  [][(last'.op = "getitem" /\ last'.key >= 0 /\ Len(data) > 0) =>
       /\ last'.err = "none"
       /\ last'.val = <<At(data, last'.key % Len(data))>>
       /\ data' = data]_vars

C3_Witness ==
  /\ Finished("getitem")
  /\ last.key >= 0
  /\ Len(data) > 0
  /\ prevLen > Len(data)
  /\ last.key % prevLen # last.key % Len(data)
  /\ last.val = <<At(data, last.key % Len(data))>>

\* C4: set by an index i >= -n on a non-empty list of length n succeeds,
\* writes the value at position i mod n (i >= 0) or n + i (i < 0), the
\* position get reads for the same i, and leaves the length and every other
\* position as they were.
C4_SetWritesOnePosition ==
  (Finished("setitem") /\ Len(last.pre) > 0 /\ last.key >= 0 - Len(last.pre)) =>
    LET n == Len(last.pre)
        q == PositionOf(last.key, n)
    IN /\ last.err = "none"
       /\ Len(data) = n
       /\ \A p \in 0..(n - 1) :
            At(data, p) = IF p = q THEN last.value[1] ELSE At(last.pre, p)
       /\ GetItem(last.pre, last.key).val = <<At(last.pre, q)>>

C4_Witness ==
  /\ Finished("setitem")
  /\ Len(last.pre) >= 2
  /\ last.key >= Len(last.pre)
  /\ last.key % Len(last.pre) # 0
  /\ last.value[1] # At(last.pre, last.key % Len(last.pre))
  /\ At(data, last.key % Len(last.pre)) = last.value[1]

\* C5: delete by an index i >= 0 on a non-empty list of length n removes the
\* element at position i mod n and only it: the length becomes n - 1 and the
\* other elements keep their values and order.
C5_DelRemovesOnePosition ==
  (Finished("delitem") /\ Len(last.pre) > 0 /\ last.key >= 0) =>
    LET n == Len(last.pre)
        q == last.key % n
    IN /\ last.err = "none"
       /\ Len(data) = n - 1
       /\ \A p \in 0..(n - 2) : At(data, p) = At(last.pre, IF p < q THEN p ELSE p + 1)

C5_Witness ==
  /\ Finished("delitem")
  /\ Len(last.pre) >= 2
  /\ last.key >= Len(last.pre)
  /\ At(last.pre, 0) # At(last.pre, 1)
  /\ Len(data) = Len(last.pre) - 1

\* C6: get, set and delete by a single index fail, with an out-of-range
\* error and the contents untouched, exactly when the list is empty or the
\* index is below -n; an index in -n..-1 addresses position n + i.
C6_IndexErrorExactly ==
  (last.op \in {"getitem", "setitem", "delitem"}) =>
    LET n == Len(last.pre)
        i == last.key
    IN /\ last.err \in {"none", "IndexError"}
       /\ (last.err = "IndexError") <=> (n = 0 \/ i < 0 - n)
       /\ (last.err = "IndexError") => data = last.pre
       /\ (n > 0 /\ i < 0 /\ i >= 0 - n) =>
            /\ last.op = "getitem" => last.val = <<At(last.pre, n + i)>>
            /\ last.op = "setitem" => data = [last.pre EXCEPT ![n + i + 1] = last.value[1]]
            /\ last.op = "delitem" =>
                 /\ Len(data) = n - 1
                 /\ \A p \in 0..(n - 2) :
                      At(data, p) = At(last.pre, IF p < n + i THEN p ELSE p + 1)

C6_Witness ==
  /\ last.op = "delitem"
  /\ Len(last.pre) > 0
  /\ last.key < 0 - Len(last.pre)
  /\ last.err = "IndexError"
  /\ data = last.pre

\* C7: get by slice does not fail for any integer start and stop on a list
\* of any length, the empty list included.
C7_SliceGetNeverFails ==
  (Finished("getslice") /\ Default(last.sl.step, 1) # 0) => last.err = "none"

\* C8: set and delete by a slice [start:stop] with 0 <= start <= stop act on
\* the run of positions min(start, n) .. min(stop, n) - 1 only, without
\* wrapping: the run is replaced by the right-hand side (by nothing for a
\* delete) and the elements before and after it keep their values and order.
C8_WriteSliceNoWrap ==
  ((Finished("setslice") \/ Finished("delslice"))
     /\ last.sl.step = None /\ Given(last.sl.start) /\ Given(last.sl.stop)
     /\ 0 <= last.sl.start[1] /\ last.sl.start[1] <= last.sl.stop[1]) =>
    LET n   == Len(last.pre)
        lo  == IF last.sl.start[1] < n THEN last.sl.start[1] ELSE n
        hi  == IF last.sl.stop[1] < n THEN last.sl.stop[1] ELSE n
        rhs == last.value
    IN /\ last.err = "none"
       /\ Len(data) = lo + Len(rhs) + (n - hi)
       /\ \A p \in 0..(lo - 1) : At(data, p) = At(last.pre, p)
       /\ \A j \in 0..(Len(rhs) - 1) : At(data, lo + j) = At(rhs, j)
       /\ \A p \in hi..(n - 1) : At(data, lo + Len(rhs) + (p - hi)) = At(last.pre, p)

C8_Witness ==
  /\ Finished("delslice")
  /\ last.sl.step = None /\ Given(last.sl.start) /\ Given(last.sl.stop)
  /\ Len(last.pre) >= 2
  /\ last.sl.start[1] >= 1
  /\ last.sl.start[1] < Len(last.pre)
  /\ last.sl.stop[1] > Len(last.pre)
  /\ Len(data) = last.sl.start[1]
  /\ At(data, 0) = At(last.pre, 0)

\* a slice bound a plain list takes without clamping: omitted or in -n..n
InPlainRange(o, n) == o = None \/ (o[1] >= 0 - n /\ o[1] <= n)

\* a slice bound in 0..n, or omitted
InForwardRange(o, n) == o = None \/ (o[1] >= 0 /\ o[1] <= n)

C18_StepOverAssembled ==
  (Finished("getslice") /\ Len(last.pre) > 0) =>
    LET n     == Len(last.pre)
        start == Default(last.sl.start, 0)
        stop  == Default(last.sl.stop, n)
        k     == Default(last.sl.step, 1)
    IN /\ (k >= 1 /\ start < stop) =>
            /\ last.err = "none"
            /\ \A j \in 0..(stop - start) :
                 (start + j * k < stop) <=> (j < Len(last.val))
            /\ \A j \in 0..(Len(last.val) - 1) :
                 At(last.val, j) = At(last.pre, (start + j * k) % n)
       /\ (start > stop - 1) => (last.err = "none" /\ last.val = <<>>)

C18_Witness ==
  /\ Finished("getslice")
  /\ Len(last.pre) = 2
  /\ At(last.pre, 0) # At(last.pre, 1)
  /\ last.sl = [start |-> Some(1), stop |-> Some(4), step |-> Some(2)]
  /\ last.val = <<At(last.pre, 1), At(last.pre, 1)>>

\* C21: on a non-empty list of length n, once cl[i] = v has been done for an
\* index i >= -n, get by i returns v, and for i >= 0 so does get by i + k * n
\* for every k >= 0 (get by any index addressing the same position), until
\* that position is written again or an element is deleted.
C21_GetReturnsLastSet ==
  (Finished("getitem") /\ Len(last.pre) > 0 /\ last.key >= 0 - Len(last.pre)) =>
    LET q == PositionOf(last.key, Len(last.pre))
    IN (live[q + 1] # None) => (last.err = "none" /\ last.val = live[q + 1])

C21_Witness ==
  /\ Finished("getitem")
  /\ Len(last.pre) = 2
  /\ last.key > Len(last.pre) /\ last.key % 2 = 1
  /\ live[1] # None /\ live[2] # None /\ live[1] # live[2]
  /\ last.val = live[2]

(***************************************************************************)
(* Properties of Segment2D                                                 *)
(***************************************************************************)
SegFinished == seg.op \in {"intersection", "intersects_with"} /\ seg.err # "pending"

\* the determinant of the two direction vectors
Det(a, b, c, d) ==
  (b[2] - a[2]) * (d[1] - c[1]) - (b[1] - a[1]) * (d[2] - c[2])

\* p + k * (q - p) for a rational k: a pair of rationals over the denominator of k
Along(p, q, k) ==
  << <<p[1] * k[2] + k[1] * (q[1] - p[1]), k[2]>>,
     <<p[2] * k[2] + k[1] * (q[2] - p[2]), k[2]>> >>

RatEq(x, y) == x[1] * y[2] = y[1] * x[2]

\* the two closed segments a-b and c-d, not parallel, meet: the lines' common
\* point has its parameter on c-d, and its projection on a-b, inside [0,1]
Meet(a, b, c, d) ==
  LET det == Det(a, b, c, d)
      k   == RatDiv((b[1] - a[1]) * (c[2] - a[2]) - (b[2] - a[2]) * (c[1] - a[1]), det)
      pt  == Along(c, d, k)
      v   == PointSub(b, a)
      dot == (pt[1][1] - a[1] * k[2]) * v[1] + (pt[2][1] - a[2] * k[2]) * v[2]
  IN /\ InUnit(k)
     /\ 0 <= dot
     /\ dot <= k[2] * (v[1] * v[1] + v[2] * v[2])

\* the common point of the two lines, not parallel
CommonPoint(a, b, c, d) ==
  Along(c, d, RatDiv((b[1] - a[1]) * (c[2] - a[2]) - (b[2] - a[2]) * (c[1] - a[1]),
                     Det(a, b, c, d)))

\* C10: for two segments whose direction vectors are not parallel,
\* intersection returns without failing whichever segment is the receiver,
\* a vertical one included: the common point when both line parameters lie
\* in [0,1], none otherwise; and intersects_with is true exactly when
\* intersection returns a point.
C10_IntersectionOfNonParallel ==
  (SegFinished /\ Det(seg.a, seg.b, seg.c, seg.d) # 0) =>
    /\ seg.err = "none"
    /\ seg.hit <=> Meet(seg.a, seg.b, seg.c, seg.d)
    /\ seg.op = "intersection" =>
         /\ (seg.res # <<>>) <=> Meet(seg.a, seg.b, seg.c, seg.d)
         /\ (seg.res # <<>>) =>
              LET pt == CommonPoint(seg.a, seg.b, seg.c, seg.d)
              IN RatEq(seg.res[1], pt[1]) /\ RatEq(seg.res[2], pt[2])

VecFinished(op) == vec.op = op /\ vec.err # "pending"

\* C11: dividing a point, a cartesian vector or a polar vector by a scalar
\* equal to 0 fails with a divide-by-zero error and yields no value, whatever
\* the operand is.
C11_DivideByZeroFails ==
  (VecFinished("div") /\ vec.k = 0) =>
    /\ vec.err = "ZeroDivisionError"
    /\ vec.res = NoVec

C11_Witness ==
  /\ VecFinished("div")
  /\ vec.k = 0
  /\ vec.recv.enc = "polar"
  /\ NSign(vec.recv.r) > 0
  /\ vec.err = "ZeroDivisionError"

\* C12: a polar vector built from a magnitude r >= 0 and any angle t stores
\* r unchanged and an angle in [0, tau); with r = 0 the stored angle is 0
\* whatever t was; a negative r is rejected.
C12_PolarIsCanonical ==
  (VecFinished("new") /\ vec.args.x = None /\ vec.args.y = None
     /\ vec.args.r # None /\ vec.args.t # None) =>
    IF vec.args.r[1] >= 0
      THEN /\ vec.err = "none"
           /\ vec.res.enc = "polar"
           /\ vec.res.r = Whole(vec.args.r[1])
           /\ 0 <= vec.res.t /\ vec.res.t < Tau
           /\ (vec.args.r[1] = 0) => (vec.res.t = 0)
      ELSE vec.err # "none" /\ vec.res = NoVec

\* C13: multiplying a vector by a real scalar k, or dividing it by k # 0,
\* keeps its encoding: a cartesian vector gives the cartesian vector of the
\* scaled components, a polar vector the polar vector of the scaled magnitude
\* and the same angle, and a polar vector times 0 the polar zero (r=0, t=0).
C13_ScalingKeepsEncoding ==
  ((VecFinished("mul") \/ (VecFinished("div") /\ vec.k # 0))
     /\ vec.recv.enc \in {"cartesian", "polar"}) =>
    LET k == Whole(vec.k)
        scaled(c) == IF vec.op = "mul" THEN NMul(c, k) ELSE NDiv(c, k)
    IN /\ vec.err = "none"
       /\ vec.res.enc = vec.recv.enc
       /\ (vec.recv.enc = "cartesian") =>
            vec.res = Cartesian(scaled(vec.recv.x), scaled(vec.recv.y))
       /\ (vec.recv.enc = "polar") =>
            IF vec.k = 0 THEN vec.res = Polar(Zero, 0)
            ELSE vec.res.r = scaled(vec.recv.r) /\ vec.res.t = vec.recv.t

\* the cartesian components <<x, y>> of a vector
Components(v) ==
  IF v.enc = "cartesian" THEN <<v.x, v.y>>
  ELSE <<NMul(v.r, Cos(v.t)), NMul(v.r, Sin(v.t))>>

\* the polar vector of magnitude r >= 0 and angle t, the zero vector in its
\* one encoding (r=0, t=0)
PolarOf(r, t) == Polar(r, IF r = Zero THEN 0 ELSE t)

\* C14: the sum of two polar vectors of the same stored angle t is the polar
\* vector (r1 + r2, t); their difference is the polar vector (r1 - r2, t)
\* when r1 >= r2 and (r2 - r1, (t + pi) mod tau) otherwise, never of negative
\* magnitude.  Every other sum or difference of two vectors is the cartesian
\* vector of the component-wise sum or difference.
C14_AddSubEncoding ==
  (VecFinished("add") \/ VecFinished("sub")) =>
    LET v == vec.recv
        w == vec.other
    IN /\ vec.err = "none"
       /\ IF v.enc = "polar" /\ w.enc = "polar" /\ v.t = w.t
            THEN /\ NSign(vec.res.r) >= 0
                 /\ vec.res =
                      IF vec.op = "add" THEN PolarOf(NAdd(v.r, w.r), v.t)
                      ELSE IF NGe(v.r, w.r) THEN PolarOf(NSub(v.r, w.r), v.t)
                      ELSE PolarOf(NSub(w.r, v.r), (v.t + Pi) % Tau)
            ELSE vec.res =
                   IF vec.op = "add"
                     THEN Cartesian(NAdd(Components(v)[1], Components(w)[1]),
                                    NAdd(Components(v)[2], Components(w)[2]))
                     ELSE Cartesian(NSub(Components(v)[1], Components(w)[1]),
                                    NSub(Components(v)[2], Components(w)[2]))

C14_Witness ==
  /\ VecFinished("sub")
  /\ vec.recv.enc = "polar" /\ vec.other.enc = "polar"
  /\ vec.recv.t = vec.other.t /\ vec.recv.t = 6 * Eighth
  /\ vec.recv.r = Whole(1) /\ vec.other.r = Whole(2)
  /\ vec.res = Polar(Whole(1), HalfPi)

\* C15: rotating a cartesian vector (x, y) by an angle that normalizes to
\* exactly 0, pi/2, pi or 3*pi/2 returns exactly (x, y), (-y, x), (-x, -y) or
\* (y, -x); and the fourth of four successive rotations by a quarter turn
\* returns the vector the first one started from.
C15_QuarterTurnsExact ==
  (VecFinished("rotate") /\ vec.recv.enc = "cartesian") =>
    LET n == normalize_t(vec.angle)
        x == vec.recv.x
        y == vec.recv.y
    IN /\ (n \in {0, HalfPi, Pi, ThreeHalfPi}) => vec.err = "none"
       /\ (n = 0) => vec.res = Cartesian(x, y)
       /\ (n = HalfPi) => vec.res = Cartesian(NNeg(y), x)
       /\ (n = Pi) => vec.res = Cartesian(NNeg(x), NNeg(y))
       /\ (n = ThreeHalfPi) => vec.res = Cartesian(y, NNeg(x))
       /\ (n \in {HalfPi, ThreeHalfPi} /\ vec.turns = 4) => vec.res = vec.first

C15_Witness ==
  /\ VecFinished("rotate")
  /\ vec.turns = 4
  /\ vec.angle = 5 * HalfPi
  /\ vec.first = Cartesian(Whole(1), Whole(0 - 1))
  /\ vec.recv = Cartesian(Whole(0 - 1), Whole(0 - 1))
  /\ vec.res = vec.first

\* C16: unit() of a non-zero vector is a vector of the same encoding and
\* direction and of magnitude 1; unit() of the cartesian zero vector is that
\* zero vector; unit() of the polar zero vector is the polar vector (r=1, t=0).
C16_UnitVector ==
  VecFinished("unit") =>
    LET v == vec.recv
        u == vec.res
    IN /\ vec.err = "none"
       /\ u.enc = v.enc
       /\ (v.enc = "cartesian" /\ v = Cartesian(Zero, Zero)) => u = v
       /\ (v.enc = "cartesian" /\ v # Cartesian(Zero, Zero)) =>
            /\ NAdd(NMul(u.x, u.x), NMul(u.y, u.y)) = One
            /\ NSub(NMul(v.x, u.y), NMul(v.y, u.x)) = Zero
            /\ NSign(NAdd(NMul(v.x, u.x), NMul(v.y, u.y))) > 0
       /\ (v.enc = "polar") => u = Polar(One, v.t)
       /\ (v.enc = "polar" /\ v.r = Zero) => u = Polar(One, 0)

C16_Witness ==
  /\ VecFinished("unit")
  /\ vec.recv = Cartesian(Whole(0 - 1), Whole(1))
  /\ vec.res = Cartesian(<<0, 0 - 1, 2>>, <<0, 1, 2>>)

\* exactly the cartesian pair, or exactly the polar pair, is supplied
OnlyXY(a) == a.x # None /\ a.y # None /\ a.r = None /\ a.t = None
OnlyRT(a) == a.r # None /\ a.t # None /\ a.x = None /\ a.y = None

\* C17: constructing a vector succeeds only when exactly one of the two
\* coordinate pairs is supplied: the pair (x, y) alone gives the cartesian
\* vector, the pair (r, t) alone a polar vector, and neither pair, an
\* incomplete pair or both pairs fail with an error and give no vector.
C17_ExactlyOnePair ==
  VecFinished("new") =>
    LET a == vec.args
    IN /\ (vec.err = "none") => (OnlyXY(a) \/ OnlyRT(a))
       /\ OnlyXY(a) => (vec.err = "none" /\ vec.res = Cartesian(Whole(a.x[1]), Whole(a.y[1])))
       /\ (OnlyRT(a) /\ a.r[1] >= 0) =>
            (vec.err = "none" /\ vec.res.enc = "polar" /\ vec.res.r = Whole(a.r[1]))
       /\ ~(OnlyXY(a) \/ OnlyRT(a)) =>
            (vec.err \in {"AssertionError", "TypeError"} /\ vec.res = NoVec)

C17_Witness ==
  /\ VecFinished("new")
  /\ vec.args.x # None /\ vec.args.y # None /\ vec.args.r # None /\ vec.args.t # None
  /\ vec.args.r[1] > 0
  /\ vec.err = "TypeError"
  /\ vec.res = NoVec

\* C20: rotate on a cartesian receiver returns a cartesian vector for every
\* angle, also for one that normalizes to none of 0, pi/2, pi and 3*pi/2:
\* the encoding of the result is the encoding of the receiver.
C20_RotateKeepsCartesian ==
  (VecFinished("rotate") /\ vec.recv.enc = "cartesian") =>
    /\ vec.err = "none"
    /\ vec.res.enc = "cartesian"

====
